---- MODULE Spec2Model ----
(***************************************************************************)
(* The tool-calling form-filling agent loop of src/form-filling-tools.js   *)
(* (class FormFillingTools; src/popup.js carries a copy with the same      *)
(* control flow and different message texts).                              *)
(*                                                                         *)
(* One run is modelled: construction, runToolBasedAgent, and the loop of   *)
(* handleAgentResponse.  An action is one segment of the async code        *)
(* between two awaits on the model transport, or the dispatch of one tool  *)
(* call.  The model transport is the environment: it answers every request *)
(* with an arbitrary response or throws.                                   *)
(***************************************************************************)
EXTENDS Integers, Sequences, FiniteSets, TLC

\* ------------------------------------------------------------------ bounds
MaxFields == 2        \* registered fields: 0..MaxFields
MaxAttemptsOpt == 2   \* options.maxAttempts is drawn from 1..MaxAttemptsOpt
MaxErrorsOpt == 2     \* options.maxConsecutiveErrors is 1 or MaxErrorsOpt
MaxCalls == 2         \* tool calls carried by one model response
CountCap == 6         \* saturation of the observer counters
LongRunAttempts == 4  \* options.maxAttempts of the runs of LongSpec
MaxFragments == 2     \* tool-call fragments in one text response
MaxLines == 4         \* lines of the resume a search runs over

\* ------------------------------------------------------- inputs of the run
\* Ids the Form Discovery collaborator may hand over, in registration order.
AllFields == <<"f1", "f2", "f3", "f4">>

FieldLists == {SubSeq(AllFields, 1, n) : n \in 0..MaxFields}

\* Ids a model may name in a call; whether one is registered depends on the
\* field list of the run.
CallFieldIds == {"f1", "f2"}

\* The keys the fieldAttempts Map can get: the ids of the calls, and the id
\* parseArgs puts in for a fill_field call with a single argument.
AttemptKeys == CallFieldIds \cup {"unknown"}

\* The fill_field arguments a model may send: two different fills of the
\* first id and one fill of the second.
FillArgs ==
  {<<"f1", "v1", "High">>, <<"f1", "v2", "Low">>, <<"f2", "v1", "High">>}

validTools ==
  {"analyze_resume", "get_resume_section", "get_next_field", "check_field",
   "fill_field", "list_fields", "search_resume", "save_progress"}

\* One entry of tool_calls.  payload tells how function.arguments arrived: as
\* an object (or a string that is valid JSON), or as a string JSON.parse
\* rejects.
Call(tool, fid, value, conf) ==
  [tool |-> tool, field_id |-> fid, value |-> value, confidence |-> conf,
   payload |-> "object"]

MalformedCall(tool) ==
  [Call(tool, "", "", "") EXCEPT !.payload = "malformed"]

CallAlphabet ==
  {Call("get_next_field", "", "", "")}
    \cup {Call("fill_field", a[1], a[2], a[3]) : a \in FillArgs}
    \cup {Call("bogus_tool", "", "", "")}

CallSeqs == UNION {[1..n -> CallAlphabet] : n \in 0..MaxCalls}

\* ------------------------------------------------------- text responses
\* A text response is the sequence, in text order, of the fragments the
\* patterns of the parser can match; the prose around them matches nothing.
\* The fragments of one text lie within 200 characters of each other.
\*   json_action  {"action": "<tool>", "field_id": ..., ...}, a flat object
\*   labeled      Tool: <tool> <sep> Parameters: {json}; sep is "ws" when only
\*                white space separates the name from "Parameters:", "text"
\*                when other characters do, and params tells whether a
\*                Parameters blob is there at all
\*   direct       <tool>(<argsStr>), the argument string given as tokens
\*   bad_action   {"action": "<tool>", "field_id": f1}, which the action
\*                pattern matches and JSON.parse rejects
\*   next_field   prose holding "Next field:" and "get_next_field"
\*   id_value     "ID: application-...", newline, "- Value: ..."
Frag(kind, tool, fid, value, conf, sep, params, argsStr) ==
  [kind |-> kind, tool |-> tool, field_id |-> fid, value |-> value,
   confidence |-> conf, sep |-> sep, params |-> params, argsStr |-> argsStr]

\* Tokens of an argument string: a double-quoted literal (without comma or
\* quote inside), a comma, a space, a bare word.
Tok(t, s) == [t |-> t, s |-> s]
Q(s) == Tok("q", s)
Comma == Tok(",", "")
Space == Tok(" ", "")

\* "f1", "Jane Doe", "High"   and   "f1","Jane Doe","High"
SpacedArgs == <<Q("f1"), Comma, Space, Q("Jane Doe"), Comma, Space, Q("High")>>
CompactArgs == <<Q("f1"), Comma, Q("Jane Doe"), Comma, Q("High")>>

JsonActionFrag(tool) ==
  Frag("json_action", tool, "f1", "Jane Doe", "High", "", FALSE, <<>>)
LabeledFrag(tool, sep) ==
  Frag("labeled", tool, "f1", "Jane Doe", "High", sep, TRUE, <<>>)
BareLabeledFrag(tool) == Frag("labeled", tool, "", "", "", "", FALSE, <<>>)
DirectFrag(tool, argsStr) ==
  Frag("direct", tool, "", "", "", "", FALSE, argsStr)
BadActionFrag == Frag("bad_action", "fill_field", "", "", "", "", FALSE, <<>>)
NextFieldFrag == Frag("next_field", "", "", "", "", "", FALSE, <<>>)
\* "ID: application-name", newline, "- Value: Jane Doe", no Confidence line
IdValueFrag ==
  Frag("id_value", "", "application-name", "Jane Doe", "", "", FALSE, <<>>)

Fragments ==
  {JsonActionFrag("fill_field"), JsonActionFrag("bogus_tool"),
   LabeledFrag("fill_field", "ws"), LabeledFrag("fill_field", "text"),
   BareLabeledFrag("get_next_field"), BareLabeledFrag("bogus_tool"),
   DirectFrag("fill_field", SpacedArgs), DirectFrag("fill_field", CompactArgs),
   DirectFrag("get_next_field", <<>>), DirectFrag("bogus_tool", <<>>),
   NextFieldFrag, IdValueFrag}

\* What the transport may return: a structured response with tool_calls, a
\* text without any tool-call syntax, or a text of the form
\* "ID: application-... / - Value: ..." that only the heuristic branch of the
\* parser matches.
Text(frags) == [shape |-> "text", calls |-> <<>>, text |-> frags]
IdValueText == Text(<<IdValueFrag>>)
TextResp == Text(<<>>)
NoResp == [shape |-> "none", calls |-> <<>>, text |-> <<>>]
NativeResp(cs) == [shape |-> "native", calls |-> cs, text |-> <<>>]

Responses == {IdValueText, TextResp} \cup {NativeResp(cs) : cs \in CallSeqs}

\* The responses the parser is examined on: every text of up to MaxFragments
\* fragments, and structured responses with one call.
Texts == UNION {[1..n -> Fragments] : n \in 0..MaxFragments}

\* Responses whose tool-call syntax is broken: a structured call whose
\* argument string is not JSON, a text whose action object is not JSON, a
\* text without any tool-call syntax.
MalformedInputs ==
  {NativeResp(<<MalformedCall("fill_field")>>), Text(<<BadActionFrag>>),
   TextResp}

\* One fill_field call without a confidence, in each shape:
\*   tool_calls entry with arguments {field_id, value}
\*   {"action": "fill_field", "field_id": "f1", "value": "Jane Doe"}
\*   Tool: fill_field ... Parameters: {"field_id": "f1", "value": "Jane Doe"}
\*   fill_field("f1","Jane Doe")
\*   fill_field("Jane Doe")
OmittedConfidenceInputs ==
  {NativeResp(<<Call("fill_field", "f1", "Jane Doe", "")>>),
   Text(<<Frag("json_action", "fill_field", "f1", "Jane Doe", "", "", FALSE,
               <<>>)>>),
   Text(<<Frag("labeled", "fill_field", "f1", "Jane Doe", "", "text", TRUE,
               <<>>)>>),
   Text(<<DirectFrag("fill_field", <<Q("f1"), Comma, Q("Jane Doe")>>)>>),
   Text(<<DirectFrag("fill_field", <<Q("Jane Doe")>>)>>)}

ParserInputs ==
  {Text(frags) : frags \in Texts}
    \cup {NativeResp(<<Call("fill_field", "f1", "Jane Doe", "High")>>),
          NativeResp(<<Call("bogus_tool", "", "", "")>>)}
    \cup MalformedInputs \cup OmittedConfidenceInputs

VARIABLES
  formFields,            \* this.formFields (ids, in registration order)
  onProgressUpdate,      \* the progress callback: "ok" | "throws"
  currentFieldIndex,     \* this.currentFieldIndex
  regCompleted,          \* this.completedFields (array)
  completionStatus,      \* this.completionStatus
  maxAttempts,           \* options.maxAttempts || 15
  maxConsecutiveErrors,  \* options.maxConsecutiveErrors || 5
  timeUp,                \* the check of Date.now() - startTime > maxRunTime
                         \* at the loop head found the budget exceeded
  pc,                    \* position of the run
  currentResponse,       \* the response last handed to extractToolCalls
  conversation,          \* the message list
  toolCalls,             \* parsed calls of the current response
  callIdx,               \* position of the for loop in toolCalls
  attemptCount,
  consecutiveErrorCount,
  fieldAttempts,         \* Map id -> failed fill attempts
  completedFields,       \* Map id -> {id, value, confidence}, insertion order
  result,                \* the object returned to the caller
  progressLog,           \* values handed to the progress callback
  requests,              \* observer: model requests sent
  dispatched,            \* observer: executeTool invocations
  obs,                   \* observer: facts about the history of the run
  options,               \* the options argument of the caller
  apiProvider,           \* the transport: "generic" | "ollama"
  expired,               \* Date.now() - startTime > maxRunTime holds by now
  twin,                  \* the instance of a second run, while it waits
  search                 \* query, resume and result of a searchResume call

vars ==
  <<formFields, onProgressUpdate, currentFieldIndex, regCompleted,
    completionStatus, maxAttempts, maxConsecutiveErrors, timeUp, pc,
    currentResponse, conversation, toolCalls, callIdx, attemptCount,
    consecutiveErrorCount, fieldAttempts, completedFields, result,
    progressLog, requests, dispatched, obs, options, apiProvider, expired,
    twin, search>>

\* What the steps of one run leave alone: the caller's arguments, the clock,
\* the other instance, the search.
env == <<options, apiProvider, expired, twin, search>>


\* ------------------------------------------------------ registry and tools
NumFields == Len(formFields)

IsRegistered(fid) == \E i \in 1..NumFields : formFields[i] = fid

\* Math.round((n / total) * 100); a division by zero yields Infinity in JS.
Infinity == 1000000

RoundPct(n, total) ==
  IF total = 0 THEN Infinity ELSE (200 * n + total) \div (2 * total)

\* A tool result as far as the loop and the claims look at it.
Res(status, fid, index, remaining) ==
  [status |-> status, field_id |-> fid, field_index |-> index,
   remaining |-> remaining]

NoRes == Res("none", "", -1, -1)

\* (variant: the cursor is not advanced)
getNextField_NoAdvance(idx, fields) ==
  IF idx >= Len(fields)
  THEN [res |-> Res("done", "", -1, 0), index |-> idx]
  ELSE [res |-> Res("field", fields[idx + 1], idx, Len(fields) - (idx + 1)),
        index |-> idx]

\* getNextField: returns the field under the cursor and advances, or the
\* terminal {remaining: 0} once the cursor has passed the last field.
getNextField(idx, fields) ==
  IF idx >= Len(fields)
  THEN [res |-> Res("done", "", -1, 0), index |-> idx]
  ELSE [res |-> Res("field", fields[idx + 1], idx, Len(fields) - (idx + 1)),
        index |-> idx + 1]

\* fillField: a not-found id returns an error object (it does not throw);
\* otherwise the entry is pushed, the percentage recomputed and the progress
\* callback invoked.  A throwing callback is caught by fillField's own
\* try/catch and turned into an error object, after the push.
fillField(fid, value, confidence) ==
  IF ~IsRegistered(fid)
  THEN [res |-> Res("error", fid, -1, -1), completed |-> regCompleted,
        status |-> completionStatus, log |-> <<>>]
  ELSE LET entry == [id |-> fid, value |-> value,
                     confidence |-> IF confidence = "" THEN "Medium"
                                    ELSE confidence]
           comp == Append(regCompleted, entry)
           pct == RoundPct(Len(comp), NumFields)
       IN [res |-> IF onProgressUpdate = "throws"
                   THEN Res("error", fid, -1, -1)
                   ELSE Res("filled", fid, -1, -1),
           completed |-> comp,
           status |-> pct,
           log |-> <<pct>>]

\* checkField: a not-found id returns an error object (it does not throw).
checkField(fid) ==
  IF ~IsRegistered(fid) THEN Res("error", fid, -1, -1)
  ELSE Res("details", fid, -1, -1)

\* (variant: the fields from the cursor on)
listFields_FromCursor ==
  [fields |-> SubSeq(formFields, currentFieldIndex + 1, NumFields),
   total |-> NumFields, completed |-> Len(regCompleted),
   remaining |-> NumFields - Len(regCompleted)]

\* listFields: this.formFields.map(...), every field of the list; the counts
\* are taken from the lengths of the two arrays.
listFields ==
  [fields |-> formFields,
   total |-> NumFields, completed |-> Len(regCompleted),
   remaining |-> NumFields - Len(regCompleted)]

\* saveProgress: the stored percentage and the completed list as they are.
saveProgress ==
  [total_fields |-> NumFields, completed_fields |-> Len(regCompleted),
   completion_percentage |-> completionStatus, fields |-> regCompleted]

\* --------------------------------------------------------- searchResume
\* The resume is a list of lines; a line holds one word or is empty.
LineWords == {"", "skills", "abilities", "python", "java"}

Resumes == UNION {[1..n -> LineWords] : n \in 1..MaxLines}

\* The queries of a search_resume call: words, and a skill name that is not
\* a well-formed regular expression.
Queries == {"java", "skills", "pythons", "xylophone", "c++"}

\* new RegExp(query, 'i') throws a SyntaxError for "c++" (nothing to repeat).
IsValidPattern(query) == query # "c++"

\* new RegExp(term, 'i').test(line) for a word: the word occurs in the line.
Occurs(term, line) ==
  \/ term # "" /\ term = line
  \/ term = "skill" /\ line = "skills"

\* query.replace(/s$/, '')
Singular(query) ==
  CASE query = "skills" -> "skill"
    [] query = "pythons" -> "python"
    [] OTHER -> query

\* getRelatedTerms: the list of the first key of the map that the lowercased
\* query contains; otherwise plural, singular, lowercase and uppercase of
\* the query (the queries are lowercase, and under the 'i' flag the
\* uppercase form tests as the query does).
getRelatedTerms(query) ==
  IF query = "skills"
  THEN <<"abilities", "competencies", "expertise", "proficiencies",
         "qualifications">>
  ELSE <<query \o "s", Singular(query), query, query>>

Min(S) == CHOOSE i \in S : \A j \in S : i <= j

Max(S) == CHOOSE i \in S : \A j \in S : i >= j

Match(text, confidence) == [text |-> text, confidence |-> confidence]

\* The first loop: one Medium match per line the query occurs in, its text
\* the lines from i - 2 to i + 2 as far as they exist.
RECURSIVE DirectMatches(_, _, _)
DirectMatches(query, lines, i) ==
  IF i > Len(lines) THEN <<>>
  ELSE (IF Occurs(query, lines[i])
        THEN <<Match(SubSeq(lines, Max({1, i - 2}),
                            Min({Len(lines), i + 2})), "Medium")>>
        ELSE <<>>)
         \o DirectMatches(query, lines, i + 1)

\* The second loop: for each related term, the first line it occurs in.
RECURSIVE RelatedMatches(_, _)
RelatedMatches(terms, lines) ==
  IF terms = <<>> THEN <<>>
  ELSE LET at == {i \in 1..Len(lines) : Occurs(Head(terms), lines[i])}
       IN (IF at = {} THEN <<>>
           ELSE <<Match(<<lines[Min(at)]>>, "Low")>>)
            \o RelatedMatches(Tail(terms), lines)

NoMatchesFound == Match(<<"No matches found">>, "Low")

\* searchResume(query) over this.resumeContent: the result object, or the
\* error object of the catch block when the pattern cannot be compiled.
searchResume(query, lines) ==
  IF ~IsValidPattern(query) THEN [error |-> TRUE, matches |-> <<>>]
  ELSE LET direct == DirectMatches(query, lines, 1)
           matches == IF Len(direct) = 0
                      THEN RelatedMatches(getRelatedTerms(query), lines)
                      ELSE direct
       IN [error |-> FALSE,
           matches |-> IF Len(matches) > 0 THEN matches
                       ELSE <<NoMatchesFound>>]

\* ------------------------------------------------------ the resume tools
\* this.resumeContent of a run, as lines.
resumeContent == <<"skills", "python">>

\* What the try block of a tool method comes to: the value it returns, or
\* an exception raised inside it.
Returned(res) == [raised |-> FALSE, res |-> res]

Raised == [raised |-> TRUE, res |-> NoRes]

\* (variant: the method has no catch block)
MethodCatch_Rethrow(o) == [thrown |-> o.raised, res |-> o.res]

\* `} catch (error) { return { error: ... } }`, which ends every tool
\* method: an exception of the try block becomes an error object.
MethodCatch(o) ==
  [thrown |-> FALSE,
   res |-> IF o.raised THEN Res("error", "", -1, -1) ELSE o.res]

\* analyzeResume: five pattern matches over the resume, each null when
\* nothing matches.
analyzeResume == Returned(Res("analysis", "", -1, -1))

\* the keys of sectionMap
SectionNames == {"education", "experience", "skills", "projects", "contact"}

\* getResumeSection: sectionName.toLowerCase() raises a TypeError when the
\* argument is missing; a key of sectionMap yields the section or the
\* sentinel "Section not found", any other name "Unknown section: ...".
getResumeSection(sectionName) ==
  IF sectionName = "" THEN Raised
  ELSE IF sectionName \in SectionNames
  THEN Returned(Res(IF \E i \in 1..Len(resumeContent) :
                         resumeContent[i] = sectionName
                    THEN "section" ELSE "section_not_found", "", -1, -1))
  ELSE Returned(Res("unknown_section", "", -1, -1))

\* The single string a call of get_resume_section (section_name) or of
\* search_resume (query) carries travels in the call's value.
StringArg(c) == c.value

\* executeTool: the switch over the tool name; an unknown name throws.
executeTool(c) ==
  LET same == [thrown |-> FALSE, res |-> Res("ok", "", -1, -1),
               index |-> currentFieldIndex, completed |-> regCompleted,
               status |-> completionStatus, log |-> <<>>]
  IN CASE c.tool = "get_next_field" ->
            LET g == getNextField(currentFieldIndex, formFields)
            IN [same EXCEPT !.res = g.res, !.index = g.index]
       [] c.tool = "fill_field" ->
            LET f == fillField(c.field_id, c.value, c.confidence)
            IN [same EXCEPT !.res = f.res, !.completed = f.completed,
                            !.status = f.status, !.log = f.log]
       [] c.tool = "check_field" ->
            [same EXCEPT !.res = checkField(c.field_id)]
       [] c.tool = "analyze_resume" ->
            LET m == MethodCatch(analyzeResume)
            IN [same EXCEPT !.thrown = m.thrown, !.res = m.res]
       [] c.tool = "get_resume_section" ->
            LET m == MethodCatch(getResumeSection(StringArg(c)))
            IN [same EXCEPT !.thrown = m.thrown, !.res = m.res]
       [] c.tool = "list_fields" ->
            [same EXCEPT !.res = Res("fields", "", -1, listFields.remaining)]
       [] c.tool = "search_resume" ->
            [same EXCEPT !.res =
               Res(IF searchResume(StringArg(c), resumeContent).error
                   THEN "error" ELSE "matches", "", -1, -1)]
       [] c.tool = "save_progress" ->
            [same EXCEPT !.res = Res("saved", "", -1, -1)]
       [] OTHER -> [same EXCEPT !.thrown = TRUE, !.res = NoRes]

\* ------------------------------------------------------------- the parser
\* A parsed call: id is the tool_calls id of a structured call and 0 when the
\* call was read from text; via names the branch of extractToolCalls that
\* produced the call (an annotation, not a field of the code's object).
Parsed(id, tool, fid, value, conf, via) ==
  [id |-> id, tool |-> tool, field_id |-> fid, value |-> value,
   confidence |-> conf, via |-> via]

\* The characters a token stands for.
RenderTok(tok) ==
  CASE tok.t = "q" -> "\"" \o tok.s \o "\""
    [] tok.t = "," -> ","
    [] tok.t = " " -> " "
    [] OTHER -> tok.s

RECURSIVE Render(_)
Render(toks) ==
  IF toks = <<>> THEN "" ELSE RenderTok(Head(toks)) \o Render(Tail(toks))

\* String.prototype.trim
RECURSIVE TrimLeft(_)
TrimLeft(toks) ==
  IF toks # <<>> /\ Head(toks).t = " " THEN TrimLeft(Tail(toks)) ELSE toks

RECURSIVE TrimRight(_)
TrimRight(toks) ==
  IF toks # <<>> /\ toks[Len(toks)].t = " "
  THEN TrimRight(SubSeq(toks, 1, Len(toks) - 1))
  ELSE toks

Trim(toks) == TrimRight(TrimLeft(toks))

\* index of the first comma at or after position i, Len + 1 without one
RECURSIVE NextComma(_, _)
NextComma(toks, i) ==
  IF i > Len(toks) \/ toks[i].t = "," THEN i ELSE NextComma(toks, i + 1)

\* The exec loop of splitCsvRespectingQuotes over
\* /"([^"]*(?:""[^"]*)*)"|([^,]+)/g from position i.  At a quote the first
\* alternative matches the literal and yields its inside.  At a comma
\* nothing matches and the search moves on by one character.  Anywhere
\* else (a space, a bare word) the second alternative matches everything up
\* to the next comma, quote characters included, and yields it trimmed.
RECURSIVE SplitFrom(_, _)
SplitFrom(toks, i) ==
  IF i > Len(toks) THEN <<>>
  ELSE IF toks[i].t = "q" THEN <<toks[i].s>> \o SplitFrom(toks, i + 1)
  ELSE IF toks[i].t = "," THEN SplitFrom(toks, i + 1)
  ELSE LET j == NextComma(toks, i)
       IN <<Render(Trim(SubSeq(toks, i, j - 1)))>> \o SplitFrom(toks, j)

splitCsvRespectingQuotes(toks) == SplitFrom(toks, 1)

\* argsStr.replace(/^["']|["']$/g, ''): a leading and a trailing quote go.
StripOuterQuotes(toks) ==
  IF Len(toks) = 1 /\ toks[1].t = "q" THEN toks[1].s
  ELSE IF toks = <<>> THEN ""
  ELSE LET first == toks[1]
           last == toks[Len(toks)]
           head == IF first.t = "q" THEN first.s \o "\"" ELSE RenderTok(first)
           tail == IF last.t = "q" THEN "\"" \o last.s ELSE RenderTok(last)
       IN head \o Render(SubSeq(toks, 2, Len(toks) - 1)) \o tail

\* argsStr.replace(/['"]/g, '')
RECURSIVE RenderUnquoted(_)
RenderUnquoted(toks) ==
  IF toks = <<>> THEN ""
  ELSE (IF Head(toks).t = "q" THEN Head(toks).s ELSE RenderTok(Head(toks)))
         \o RenderUnquoted(Tail(toks))

\* parseArgs(tool, argsStr) for an argument string without braces and
\* without '=': null for a name outside the catalog, otherwise the arguments
\* by position.
parseArgs(tool, toks) ==
  LET none == [null |-> FALSE, field_id |-> "", value |-> "",
               confidence |-> ""]
      parts == splitCsvRespectingQuotes(toks)
  IN IF tool \notin validTools THEN [none EXCEPT !.null = TRUE]
     ELSE IF tool = "check_field"
     THEN [none EXCEPT !.field_id = RenderUnquoted(toks)]
     ELSE IF tool # "fill_field" THEN none
     ELSE IF (\E i \in 1..Len(toks) : toks[i].t = ",") /\ Len(parts) >= 2
     THEN [none EXCEPT !.field_id = parts[1], !.value = parts[2],
                       !.confidence = IF Len(parts) >= 3 /\ parts[3] # ""
                                      THEN parts[3] ELSE "Medium"]
     ELSE [none EXCEPT !.field_id = "unknown",
                       !.value = StripOuterQuotes(toks),
                       !.confidence = "Low"]

\* The tool_calls branch: one call per entry, whatever its name.  When
\* JSON.parse rejects the argument string the catch block logs, args stays
\* {} and the call is pushed all the same.
NativeCalls(r) ==
  IF r.shape # "native" THEN <<>>
  ELSE [i \in 1..Len(r.calls) |->
          IF r.calls[i].payload = "malformed"
          THEN Parsed(i, r.calls[i].tool, "", "", "", "native")
          ELSE Parsed(i, r.calls[i].tool, r.calls[i].field_id,
                      r.calls[i].value, r.calls[i].confidence, "native")]

HasBrace(f) ==
  \/ f.kind \in {"json_action", "bad_action"}
  \/ (f.kind = "labeled" /\ f.params)

IsAction(f) == f.kind = "json_action"
IsLabeled(f) == f.kind = "labeled"
IsDirect(f) == f.kind = "direct"

\* The JSON action branch: response.match finds the leftmost '{' from which
\* an "action": "..." and a closing '}' follow.  When that brace opens the
\* first action object the object is parsed and a catalog tool returns
\* early; when it belongs to an earlier Parameters blob the match runs across
\* both objects, JSON.parse throws, and the other branches are tried.
JsonActionCalls(frags) ==
  LET acts == {i \in 1..Len(frags) : IsAction(frags[i])}
      first == Min({i \in 1..Len(frags) : HasBrace(frags[i])})
  IN IF acts = {} THEN <<>>
     ELSE IF IsAction(frags[first]) /\ frags[first].tool \in validTools
     THEN <<Parsed(0, frags[first].tool, frags[first].field_id,
                   frags[first].value, frags[first].confidence, "json")>>
     ELSE <<>>

\* The Parameters blob the block at position i gets its arguments from.
\* match[0] of mistralToolPattern takes in "Parameters: {...}" when only
\* white space separates it from the tool name, and nextSection starts after
\* match[0]: the block's own blob is then not inside nextSection, and
\* /Parameters:\s*({[^}]+})/ finds the blob of a later block, if any.
ParamsSource(frags, i) ==
  LET later == {j \in (i + 1)..Len(frags) :
                  IsLabeled(frags[j]) /\ frags[j].params}
  IN IF frags[i].params /\ frags[i].sep = "text" THEN i
     ELSE IF later # {} THEN Min(later)
     ELSE 0

LabeledCall(frags, i) ==
  LET src == ParamsSource(frags, i)
  IN IF src = 0 THEN Parsed(0, frags[i].tool, "", "", "", "labeled")
     ELSE Parsed(0, frags[i].tool, frags[src].field_id, frags[src].value,
                 frags[src].confidence, "labeled")

\* The "Tool:" branch: one call per block that names a catalog tool.
RECURSIVE LabeledFrom(_, _)
LabeledFrom(frags, i) ==
  IF i > Len(frags) THEN <<>>
  ELSE (IF IsLabeled(frags[i]) /\ frags[i].tool \in validTools
        THEN <<LabeledCall(frags, i)>> ELSE <<>>)
         \o LabeledFrom(frags, i + 1)

LabeledCalls(frags) == LabeledFrom(frags, 1)

DirectCall(frags, i) ==
  LET args == parseArgs(frags[i].tool, frags[i].argsStr)
  IN Parsed(0, frags[i].tool, args.field_id, args.value, args.confidence,
            "direct")

\* The tool_name(args) branch: one call per match that parseArgs accepts.
\* A call inside a code fence is found by the same pattern and, being
\* already in the list, is not added again by the code-block pass.
RECURSIVE DirectFrom(_, _)
DirectFrom(frags, i) ==
  IF i > Len(frags) THEN <<>>
  ELSE (IF IsDirect(frags[i])
           /\ ~parseArgs(frags[i].tool, frags[i].argsStr).null
        THEN <<DirectCall(frags, i)>> ELSE <<>>)
         \o DirectFrom(frags, i + 1)

DirectCalls(frags) == DirectFrom(frags, 1)

\* The heuristic branch without its ID/Value part.
HeuristicCalls(frags) ==
  IF \E i \in 1..Len(frags) : frags[i].kind = "next_field"
  THEN <<Parsed(0, "get_next_field", "", "", "", "heuristic")>>
  ELSE <<>>

\* (variant: the direct-call branch runs whatever the labeled branch found)
TextCalls_NoGuard(frags) ==
  IF JsonActionCalls(frags) # <<>> THEN JsonActionCalls(frags)
  ELSE IF LabeledCalls(frags) \o DirectCalls(frags) # <<>>
  THEN LabeledCalls(frags) \o DirectCalls(frags)
  ELSE HeuristicCalls(frags)

\* The string branch of extractToolCalls: the JSON action returns early; the
\* direct-call branch runs only when the labeled branch found nothing, the
\* heuristic branch only when both found nothing.
TextCalls(frags) ==
  IF JsonActionCalls(frags) # <<>> THEN JsonActionCalls(frags)
  ELSE IF LabeledCalls(frags) # <<>> THEN LabeledCalls(frags)
  ELSE IF DirectCalls(frags) # <<>> THEN DirectCalls(frags)
  ELSE HeuristicCalls(frags)

\* On an ID/Value match the heuristic branch builds
\* `{ field_id, value, confidence }` from an identifier field_id that is not
\* declared, which throws a ReferenceError out of the parser.
ParserThrows(r) ==
  /\ r.shape = "text"
  /\ JsonActionCalls(r.text) = <<>>
  /\ LabeledCalls(r.text) = <<>>
  /\ DirectCalls(r.text) = <<>>
  /\ \E i \in 1..Len(r.text) : r.text[i].kind = "id_value"

extractToolCalls(r) ==
  IF r.shape = "native" THEN NativeCalls(r)
  ELSE IF r.shape = "text" THEN TextCalls(r.text)
  ELSE <<>>

\* ---------------------------------------------------------- conversation
Msg(role, content, callId, tool, res, raw) ==
  [role |-> role, content |-> content, tool_call_id |-> callId,
   tool |-> tool, res |-> res, raw |-> raw]

SystemMsg == Msg("system", "system prompt", 0, "", NoRes, NoResp)
UserMsg == Msg("user", "initial prompt", 0, "", NoRes, NoResp)
RawMsg(r) == Msg("assistant", "raw response", 0, "", NoRes, r)

\* What the transport does to the message list it is handed, before the
\* request goes out.  OllamaProvider.sendFunctionCallingMessage appends a
\* sentence to the content of the first system message of that very list; a
\* transport that only reads its argument leaves the list as it is.
Reminder == " IMPORTANT: You MUST use the tools provided to complete your task."

sendFunctionCallingMessage(conv) ==
  IF apiProvider = "ollama"
  THEN [conv EXCEPT ![1].content = @ \o Reminder]
  ELSE conv

\* assistant message with empty content and tool_calls: [{id, name, args}]
EchoMsg(c) == Msg("assistant", "", c.id, c.tool, NoRes, NoResp)
ToolMsg(c, res) == Msg("tool", "result", c.id, c.tool, res, NoResp)
ErrorMsg(c) == Msg("assistant", "error", 0, c.tool, NoRes, NoResp)
SkipMsg(c) == Msg("assistant", "skip field", 0, c.tool, NoRes, NoResp)

\* ------------------------------------------------------------ Map helpers
MapHas(m, fid) == \E i \in 1..Len(m) : m[i].id = fid

MapIndex(m, fid) == CHOOSE i \in 1..Len(m) : m[i].id = fid

\* (variant: an id that is already present keeps its first entry)
MapSet_KeepFirst(m, entry) ==
  IF MapHas(m, entry.id) THEN m ELSE Append(m, entry)

\* Map.prototype.set: an existing key keeps its position.
MapSet(m, entry) ==
  IF MapHas(m, entry.id)
  THEN [m EXCEPT ![MapIndex(m, entry.id)] = entry]
  ELSE Append(m, entry)

Inc(n) == IF n < CountCap THEN n + 1 ELSE n

\* --------------------------------------------------------------- results
NoResult == [fields |-> <<>>, kind |-> "none", filled |-> -1, total |-> -1,
             error |-> FALSE]

\* return of handleAgentResponse after the loop
FinalResult(cf) ==
  [fields |-> cf,
   kind |-> IF Len(cf) >= NumFields THEN "complete" ELSE "partial",
   filled |-> Len(cf), total |-> NumFields, error |-> FALSE]

\* return of the catch block of handleAgentResponse
HandlerErrorResult ==
  [fields |-> <<>>, kind |-> "error", filled |-> -1, total |-> -1,
   error |-> TRUE]

\* return of the catch block of runToolBasedAgent
AgentErrorResult ==
  [fields |-> regCompleted, kind |-> "error", filled |-> -1, total |-> -1,
   error |-> TRUE]


\* The progress callback either returns or throws.  A run constructed
\* without a callback takes the same steps as one whose callback returns,
\* except that nothing is invoked.
ProgressCallbacks == {"ok", "throws"}

\* ------------------------------------------------------------------- Init
\* The state after `new FormFillingTools(provider, resume, fields, cb)`.
\* Observer of the run's history (no counterpart in the code):
\*   onlyGNF          every response parsed so far was one get_next_field call
\*   exhausted        a get_next_field execution reported remaining = 0
\*   tripped          consecutiveErrorCount reached maxConsecutiveErrors
\*   transportFailed  a model request threw
\*   parserThrew      extractToolCalls threw
\*   noCalls          a response was parsed to zero tool calls
\*   fillLog          the fill_field calls executeTool returned from, in order
\*   okFills          ids for which fillField answered status "filled"
\*   sinceOk          throwing executions since the last one that returned
\*   gnfLog           the results of the get_next_field executions, in order
\*   lastExec         the last execution: did it throw, and what it returned
\*   cooperative      every response so far followed the strategy Cooperative
\*   listed           the fields the last list_fields execution returned
\*   run              which runToolBasedAgent call of the instance this is
NoObs ==
  [onlyGNF |-> TRUE, exhausted |-> FALSE, tripped |-> FALSE,
   transportFailed |-> FALSE, parserThrew |-> FALSE, noCalls |-> FALSE,
   fillLog |-> <<>>, okFills |-> {}, sinceOk |-> 0, gnfLog |-> <<>>,
   lastExec |-> [thrown |-> FALSE, res |-> NoRes], cooperative |-> TRUE,
   listed |-> <<>>, run |-> 1]

\* The model strategy "get_next_field, then fill_field with the returned id":
\* the response r to the conversation conv is one call; it fills the id that
\* the last message reports as the result of get_next_field, and asks for
\* the next field when the last message reports none.
Cooperative(r, conv) ==
  LET last == conv[Len(conv)]
      reported == /\ last.role = "tool"
                  /\ last.tool = "get_next_field"
                  /\ last.res.status = "field"
  IN /\ r.shape = "native"
     /\ Len(r.calls) = 1
     /\ IF reported
        THEN /\ r.calls[1].tool = "fill_field"
             /\ r.calls[1].field_id = last.res.field_id
        ELSE r.calls[1].tool = "get_next_field"

\* The fields of a FormFillingTools instance and the locals of its run, as
\* the constructor and the head of handleAgentResponse set them.
NewInstance ==
  [currentFieldIndex |-> 0, regCompleted |-> <<>>, completionStatus |-> 0,
   timeUp |-> FALSE, pc |-> "constructed", currentResponse |-> NoResp,
   conversation |-> <<>>, toolCalls |-> <<>>, callIdx |-> 0,
   attemptCount |-> 0, consecutiveErrorCount |-> 0,
   fieldAttempts |-> [f \in AttemptKeys |-> 0], completedFields |-> <<>>,
   result |-> NoResult, progressLog |-> <<>>, requests |-> 0,
   dispatched |-> 0, obs |-> NoObs]

\* No search has been made.
NoSearch == [query |-> "", resume |-> <<>>, called |-> FALSE, error |-> FALSE,
             matches |-> <<>>]

\* The instance fields and run locals before anything has happened.
Fresh ==
  /\ currentFieldIndex = 0
  /\ regCompleted = <<>>
  /\ completionStatus = 0
  /\ timeUp = FALSE
  /\ currentResponse = NoResp
  /\ conversation = <<>>
  /\ toolCalls = <<>>
  /\ callIdx = 0
  /\ attemptCount = 0
  /\ consecutiveErrorCount = 0
  /\ fieldAttempts = [f \in AttemptKeys |-> 0]
  /\ completedFields = <<>>
  /\ result = NoResult
  /\ progressLog = <<>>
  /\ requests = 0
  /\ dispatched = 0
  /\ obs = NoObs
  /\ expired = FALSE
  /\ twin = NewInstance

\* The state after `new FormFillingTools(provider, resume, fields, cb)`,
\* before the options of the run are known.
Constructed ==
  /\ formFields \in FieldLists
  /\ onProgressUpdate \in ProgressCallbacks
  /\ pc = "constructed"
  /\ search = NoSearch
  /\ Fresh

\* options.maxConsecutiveErrors || 5
DefaultMaxConsecutiveErrors == 5

\* handleAgentResponse is given the budgets as its options, over a
\* transport that only reads the message list.
HandlerOptions ==
  /\ options = [maxAttempts |-> maxAttempts,
                maxConsecutiveErrors |-> maxConsecutiveErrors]
  /\ apiProvider = "generic"

Init ==
  /\ maxAttempts \in 1..MaxAttemptsOpt
  /\ maxConsecutiveErrors \in {1, MaxErrorsOpt}
  /\ HandlerOptions
  /\ Constructed

\* options.maxAttempts || 15
DefaultMaxAttempts == 15

\* `x || d` for a numeric option; 0 stands for an option that is not given.
Option(x, d) == IF x = 0 THEN d ELSE x

\* The `options = {}` default of handleAgentResponse.
NoOptions == [maxAttempts |-> 0, maxConsecutiveErrors |-> 0]

\* The options a caller of fillFormWithTools may pass, and the transports.
CallerOptions ==
  [maxAttempts : 0..MaxAttemptsOpt, maxConsecutiveErrors : {0, 1, MaxErrorsOpt}]

Providers == {"generic", "ollama"}

\* fillFormWithTools(apiProvider, resumeContent, formFields, options) has
\* been called and has not run yet.  It passes no progress callback.
EntryInit ==
  /\ options \in CallerOptions
  /\ apiProvider \in Providers
  /\ formFields \in FieldLists
  /\ onProgressUpdate = "ok"
  /\ maxAttempts = 0
  /\ maxConsecutiveErrors = 0
  /\ pc = "entry"
  /\ search = NoSearch
  /\ Fresh

\* Runs with a larger attempt budget and the default error limit.
LongInit ==
  /\ maxAttempts = LongRunAttempts
  /\ maxConsecutiveErrors = DefaultMaxConsecutiveErrors
  /\ HandlerOptions
  /\ Constructed

\* ------------------------------------------------------ pieces of the loop
\* (variant: the budget admits one attempt too many)
LoopGuard_Inclusive(a, m) == a <= m

\* while (attemptCount < maxAttempts)
LoopGuard(a, m) == a < m

\* toolCall.tool === 'get_next_field' && toolResult.remaining === 0
IsExhausted(c, res) == c.tool = "get_next_field" /\ res.remaining = 0

\* (variant: the call that finds the registry exhausted is not counted)
NextAttemptCount_SkipTerminal(a, c, res) ==
  IF IsExhausted(c, res) THEN a ELSE a + 1

\* (variant: only a call of a catalog tool is counted)
NextAttemptCount_CatalogOnly(a, c, res) ==
  IF c.tool \in validTools THEN a + 1 ELSE a

\* attemptCount++ at the head of the for body: every call of the response
\* c is counted, whatever its result res turns out to be.
NextAttemptCount(a, c, res) == a + 1

\* toolCall.tool === 'fill_field' && toolCall.args && toolCall.args.field_id
TracksField(c) == c.tool = "fill_field" /\ c.field_id # ""

\* the entry the loop stores for a fill_field call
FilledEntry(c) ==
  [id |-> c.field_id, value |-> c.value,
   confidence |-> IF c.confidence = "" THEN "Medium" ELSE c.confidence]

\* where the run goes after `break` inside the for loop: the for loop is the
\* innermost loop, so control falls to "Get next agent response".
AfterForBreak == "request"

\* (variant: the failed request is awaited again instead of leaving the loop)
AfterTransportError_Retry == "retry"

\* where the run goes after the transport threw inside the while loop:
\* `break` in the catch block, directly inside the while body.
AfterTransportError == "return"

\* (variant: the loop goes on to the next model request)
AfterNoCalls_Continue == "request"

\* where the run goes after a response without tool calls: `break` directly
\* inside the while body.
AfterNoCalls == "return"

\* The run returns r to the caller.
Return(r) ==
  /\ pc' = "done"
  /\ result' = r

\* The loop head, entered with response r: the while condition, the run-time
\* check, the parser, and the no-tool-calls exit.  a, cf and conv are the
\* values of attemptCount, completedFields and conversation at that point.
LoopHead(r, a, cf, conv, late) ==
  IF ~LoopGuard(a, maxAttempts) \/ late
  THEN /\ Return(FinalResult(cf))
       /\ currentResponse' = currentResponse
       /\ conversation' = conv
       /\ toolCalls' = <<>>
       /\ callIdx' = 0
       /\ obs' = obs
  ELSE IF ParserThrows(r)
  THEN /\ Return(HandlerErrorResult)
       /\ currentResponse' = r
       /\ conversation' = conv
       /\ toolCalls' = <<>>
       /\ callIdx' = 0
       /\ obs' = [obs EXCEPT !.parserThrew = TRUE, !.onlyGNF = FALSE,
                              !.cooperative = FALSE]
  ELSE IF Len(extractToolCalls(r)) = 0
  THEN /\ IF AfterNoCalls = "return"
          THEN Return(FinalResult(cf))
          ELSE pc' = "awaitModel" /\ result' = result
       /\ currentResponse' = r
       /\ conversation' = Append(conv, RawMsg(r))
       /\ toolCalls' = <<>>
       /\ callIdx' = 0
       /\ obs' = [obs EXCEPT !.noCalls = TRUE, !.onlyGNF = FALSE,
                              !.cooperative = FALSE]
  ELSE /\ pc' = "dispatch"
       /\ result' = result
       /\ currentResponse' = r
       /\ conversation' = conv
       /\ toolCalls' = extractToolCalls(r)
       /\ callIdx' = 1
       /\ obs' = [obs EXCEPT
                    !.onlyGNF = @ /\ Len(r.calls) = 1
                                  /\ r.calls[1].tool = "get_next_field",
                    !.cooperative = @ /\ Cooperative(r, conv)]

\* ---------------------------------------------------------------- actions
\* runToolBasedAgent up to its first await: seed the conversation and send it.
RunToolBasedAgent ==
  /\ pc = "constructed"
  /\ UNCHANGED env
  /\ pc' = "awaitInitial"
  /\ conversation' = sendFunctionCallingMessage(<<SystemMsg, UserMsg>>)
  /\ requests' = Inc(requests)
  /\ UNCHANGED <<formFields, onProgressUpdate, currentFieldIndex, regCompleted,
                 completionStatus, maxAttempts, maxConsecutiveErrors, timeUp,
                 currentResponse, toolCalls, callIdx, attemptCount,
                 consecutiveErrorCount, fieldAttempts, completedFields,
                 result, progressLog, dispatched, obs>>

\* fillFormWithTools up to the first await: `new FormFillingTools(apiProvider,
\* resumeContent, formFields)` and `tools.runToolBasedAgent()`, neither of
\* which is given `options`; runToolBasedAgent in turn calls
\* handleAgentResponse(response, conversation) without a third argument, so
\* the handler binds its budgets from NoOptions.
FillFormWithTools ==
  /\ pc = "entry"
  /\ pc' = "awaitInitial"
  /\ maxAttempts' = Option(NoOptions.maxAttempts, DefaultMaxAttempts)
  /\ maxConsecutiveErrors' =
       Option(NoOptions.maxConsecutiveErrors, DefaultMaxConsecutiveErrors)
  /\ conversation' = sendFunctionCallingMessage(<<SystemMsg, UserMsg>>)
  /\ requests' = Inc(requests)
  /\ UNCHANGED env
  /\ UNCHANGED <<formFields, onProgressUpdate, currentFieldIndex, regCompleted,
                 completionStatus, timeUp, currentResponse, toolCalls, callIdx,
                 attemptCount, consecutiveErrorCount, fieldAttempts,
                 completedFields, result, progressLog, dispatched, obs>>

\* The first response arrives: handleAgentResponse initialises its counters
\* and maps, takes startTime, and enters the loop.
InitialResponse(r) ==
  /\ pc = "awaitInitial"
  /\ UNCHANGED env
  /\ attemptCount' = 0
  /\ consecutiveErrorCount' = 0
  /\ fieldAttempts' = [f \in AttemptKeys |-> 0]
  /\ completedFields' = <<>>
  /\ timeUp' = FALSE
  /\ LoopHead(r, 0, <<>>, conversation, FALSE)
  /\ UNCHANGED <<formFields, onProgressUpdate, currentFieldIndex, regCompleted,
                 completionStatus, maxAttempts, maxConsecutiveErrors,
                 progressLog, requests, dispatched>>

\* The first request throws: the catch block of runToolBasedAgent.
InitialThrows ==
  /\ pc = "awaitInitial"
  /\ UNCHANGED env
  /\ Return(AgentErrorResult)
  /\ obs' = [obs EXCEPT !.transportFailed = TRUE]
  /\ UNCHANGED <<formFields, onProgressUpdate, currentFieldIndex, regCompleted,
                 completionStatus, maxAttempts, maxConsecutiveErrors, timeUp,
                 currentResponse, conversation, toolCalls, callIdx,
                 attemptCount,
                 consecutiveErrorCount, fieldAttempts, completedFields,
                 progressLog, requests, dispatched>>

\* A later response arrives; `late` says whether the run-time budget ran out
\* while the request was in flight.  When the while condition is false the
\* loop is left before the clock is read and before the response is parsed,
\* so neither is drawn; when the clock check ends the loop the response is
\* not parsed either.
ModelReturns(late) ==
  /\ pc = "awaitModel"
  /\ UNCHANGED env
  /\ IF ~LoopGuard(attemptCount, maxAttempts)
     THEN /\ ~late
          /\ timeUp' = timeUp
          /\ LoopHead(NoResp, attemptCount, completedFields, conversation,
                      FALSE)
     ELSE IF timeUp \/ late \/ expired
     THEN /\ timeUp' = TRUE
          /\ LoopHead(NoResp, attemptCount, completedFields, conversation,
                      TRUE)
     ELSE /\ timeUp' = FALSE
          /\ \E r \in Responses :
               LoopHead(r, attemptCount, completedFields, conversation, FALSE)
  /\ UNCHANGED <<formFields, onProgressUpdate, currentFieldIndex, regCompleted,
                 completionStatus, maxAttempts, maxConsecutiveErrors,
                 attemptCount, consecutiveErrorCount, fieldAttempts,
                 completedFields, progressLog, requests, dispatched>>

\* A later request throws: caught inside the while loop, which is left.
ModelThrows ==
  /\ pc = "awaitModel"
  /\ UNCHANGED env
  /\ IF AfterTransportError = "return"
     THEN Return(FinalResult(completedFields))
     ELSE pc' = "awaitModel" /\ result' = result
  /\ obs' = [obs EXCEPT !.transportFailed = TRUE]
  /\ UNCHANGED <<formFields, onProgressUpdate, currentFieldIndex, regCompleted,
                 completionStatus, maxAttempts, maxConsecutiveErrors, timeUp,
                 currentResponse, conversation, toolCalls, callIdx,
                 attemptCount,
                 consecutiveErrorCount, fieldAttempts, completedFields,
                 progressLog, requests, dispatched>>


\* One pass of the for body over toolCalls[callIdx]: count the attempt,
\* execute the tool, record a fill, append the messages, update the error
\* counters; then either move to the next call or, at the end of the list or
\* on `break`, send the conversation to the model again.  The clock is not
\* read between here and the next response, so time that passes during the
\* awaited tool execution is accounted for when that response arrives.
Dispatch ==
  /\ pc = "dispatch"
  /\ UNCHANGED env
  /\ LET c == toolCalls[callIdx]
         x == executeTool(c)
         tracked == ~x.thrown /\ TracksField(c)
         cf == IF tracked THEN MapSet(completedFields, FilledEntry(c))
               ELSE completedFields
         pct == RoundPct(Len(cf), NumFields)
         thrown == x.thrown \/ (tracked /\ onProgressUpdate = "throws")
         log == IF tracked THEN x.log \o <<pct>> ELSE x.log
         exhausted == ~thrown /\ IsExhausted(c, x.res)
         fa == IF thrown /\ TracksField(c)
               THEN [fieldAttempts EXCEPT ![c.field_id] = @ + 1]
               ELSE fieldAttempts
         errs == IF thrown THEN consecutiveErrorCount + 1
                 ELSE IF exhausted THEN consecutiveErrorCount
                 ELSE 0
         tripped == thrown /\ errs >= maxConsecutiveErrors
         broke == exhausted \/ tripped
         conv == IF thrown
                 THEN Append(conversation,
                             IF TracksField(c) /\ fa[c.field_id] >= 3
                             THEN SkipMsg(c) ELSE ErrorMsg(c))
                 ELSE IF exhausted THEN conversation
                 ELSE conversation \o <<EchoMsg(c), ToolMsg(c, x.res)>>
         forDone == broke \/ callIdx = Len(toolCalls)
         sends == forDone /\ ~(broke /\ AfterForBreak = "return")
     IN /\ attemptCount' = NextAttemptCount(attemptCount, c, x.res)
        /\ dispatched' = Inc(dispatched)
        /\ currentFieldIndex' = x.index
        /\ regCompleted' = x.completed
        /\ completionStatus' = IF tracked THEN pct ELSE x.status
        /\ progressLog' = progressLog \o log
        /\ completedFields' = cf
        /\ fieldAttempts' = fa
        /\ consecutiveErrorCount' = errs
        /\ conversation' = IF sends THEN sendFunctionCallingMessage(conv)
                           ELSE conv
        /\ obs' = [obs EXCEPT
                     !.exhausted = @ \/ exhausted,
                     !.tripped = @ \/ tripped,
                     !.fillLog = IF c.tool = "fill_field" /\ ~x.thrown
                                    /\ c.field_id # ""
                                 THEN Append(@, [id |-> c.field_id,
                                                 value |-> c.value,
                                                 confidence |-> c.confidence])
                                 ELSE @,
                     !.okFills = IF c.tool = "fill_field"
                                    /\ x.res.status = "filled"
                                 THEN @ \cup {c.field_id} ELSE @,
                     !.sinceOk = IF thrown THEN Inc(@) ELSE 0,
                     !.gnfLog = IF c.tool = "get_next_field"
                                   /\ Len(@) < CountCap
                                THEN Append(@, x.res) ELSE @,
                     !.lastExec = [thrown |-> thrown, res |-> x.res],
                     !.listed = IF c.tool = "list_fields" /\ ~x.thrown
                                THEN listFields.fields ELSE @]
        /\ IF broke /\ AfterForBreak = "return"
           THEN /\ Return(FinalResult(cf))
                /\ UNCHANGED <<toolCalls, callIdx, requests>>
           ELSE IF forDone
           THEN /\ pc' = "awaitModel"
                /\ requests' = Inc(requests)
                /\ UNCHANGED <<toolCalls, callIdx, result>>
           ELSE /\ pc' = "dispatch"
                /\ callIdx' = callIdx + 1
                /\ UNCHANGED <<toolCalls, requests, result>>
  /\ UNCHANGED <<formFields, onProgressUpdate, maxAttempts,
                 maxConsecutiveErrors, timeUp, currentResponse>>

Next ==
  \/ RunToolBasedAgent
  \/ \E r \in Responses : InitialResponse(r)
  \/ InitialThrows
  \/ \E late \in BOOLEAN : ModelReturns(late)
  \/ ModelThrows
  \/ Dispatch

Spec == Init /\ [][Next]_vars

\* The transport answers every request (with a response or an exception) and
\* the run keeps taking its own steps.  At every position of the run exactly
\* one kind of step is enabled (the run's own step, or the transport's answer
\* to the request in flight), so weak fairness of Next says both.
FairSpec == Spec /\ WF_vars(Next)

LongSpec == LongInit /\ [][Next]_vars

\* Time passes while a tool call or a model request is awaited: from some
\* moment on Date.now() - startTime > maxRunTime holds.  Nothing in the run
\* is told; the loop head reads the clock when it is reached.  At "dispatch"
\* with callIdx > 1 the await that has just ended is that of the call before.
ClockExpires ==
  /\ pc = "awaitModel" \/ (pc = "dispatch" /\ callIdx > 1)
  /\ ~expired
  /\ expired' = TRUE
  /\ UNCHANGED <<formFields, onProgressUpdate, currentFieldIndex, regCompleted,
                 completionStatus, maxAttempts, maxConsecutiveErrors, timeUp,
                 pc, currentResponse, conversation, toolCalls, callIdx,
                 attemptCount, consecutiveErrorCount, fieldAttempts,
                 completedFields, result, progressLog, requests, dispatched,
                 obs, options, apiProvider, twin, search>>

ClockNext == Next \/ ClockExpires

ClockSpec == Init /\ [][ClockNext]_vars

\* The fields and run locals of the run that is taking steps, as a record.
Instance ==
  [currentFieldIndex |-> currentFieldIndex, regCompleted |-> regCompleted,
   completionStatus |-> completionStatus, timeUp |-> timeUp, pc |-> pc,
   currentResponse |-> currentResponse, conversation |-> conversation,
   toolCalls |-> toolCalls, callIdx |-> callIdx,
   attemptCount |-> attemptCount,
   consecutiveErrorCount |-> consecutiveErrorCount,
   fieldAttempts |-> fieldAttempts, completedFields |-> completedFields,
   result |-> result, progressLog |-> progressLog, requests |-> requests,
   dispatched |-> dispatched, obs |-> obs]

\* (variant: one cursor serves all instances)
InstanceCursor_Shared(inst) == currentFieldIndex

\* this.currentFieldIndex: every `new FormFillingTools(...)` has its own.
InstanceCursor(inst) == inst.currentFieldIndex

\* Two calls of fillFormWithTools over the same field list and transport,
\* neither of which has run yet.
TwinInit ==
  /\ options = NoOptions
  /\ apiProvider \in Providers
  /\ formFields \in FieldLists
  /\ onProgressUpdate = "ok"
  /\ maxAttempts = 0
  /\ maxConsecutiveErrors = 0
  /\ pc = "entry"
  /\ search = NoSearch
  /\ currentFieldIndex = 0
  /\ regCompleted = <<>>
  /\ completionStatus = 0
  /\ timeUp = FALSE
  /\ currentResponse = NoResp
  /\ conversation = <<>>
  /\ toolCalls = <<>>
  /\ callIdx = 0
  /\ attemptCount = 0
  /\ consecutiveErrorCount = 0
  /\ fieldAttempts = [f \in AttemptKeys |-> 0]
  /\ completedFields = <<>>
  /\ result = NoResult
  /\ progressLog = <<>>
  /\ requests = 0
  /\ dispatched = 0
  /\ obs = NoObs
  /\ expired = FALSE
  /\ twin = [NewInstance EXCEPT !.pc = "entry"]

\* The run that takes steps reaches an await and the event loop resumes the
\* other run: each run goes on with the fields of its own instance and the
\* locals of its own handleAgentResponse call.
Switch ==
  /\ twin' = Instance
  /\ currentFieldIndex' = InstanceCursor(twin)
  /\ regCompleted' = twin.regCompleted
  /\ completionStatus' = twin.completionStatus
  /\ timeUp' = twin.timeUp
  /\ pc' = twin.pc
  /\ currentResponse' = twin.currentResponse
  /\ conversation' = twin.conversation
  /\ toolCalls' = twin.toolCalls
  /\ callIdx' = twin.callIdx
  /\ attemptCount' = twin.attemptCount
  /\ consecutiveErrorCount' = twin.consecutiveErrorCount
  /\ fieldAttempts' = twin.fieldAttempts
  /\ completedFields' = twin.completedFields
  /\ result' = twin.result
  /\ progressLog' = twin.progressLog
  /\ requests' = twin.requests
  /\ dispatched' = twin.dispatched
  /\ obs' = twin.obs
  /\ UNCHANGED <<formFields, onProgressUpdate, maxAttempts,
                 maxConsecutiveErrors, options, apiProvider, expired, search>>

\* The calls the model sends in the two runs.
TwinAlphabet ==
  {Call("get_next_field", "", "", ""), Call("fill_field", "f1", "v1", "High")}

TwinResponses ==
  {NativeResp(cs) : cs \in UNION {[1..n -> TwinAlphabet] : n \in 1..MaxCalls}}

\* Each of the two runs gets one response and dispatches its calls; its
\* second request fails.  The runs alternate at any of their awaits.
TwinNext ==
  \/ FillFormWithTools
  \/ \E r \in TwinResponses : InitialResponse(r)
  \/ Dispatch
  \/ ModelThrows
  \/ Switch

TwinSpec == TwinInit /\ [][TwinNext]_vars

\* search_resume is executed once, for any query over any resume.
SearchInit ==
  /\ search \in {[NoSearch EXCEPT !.query = q, !.resume = ls] :
                    q \in Queries, ls \in Resumes}
  /\ formFields = <<>>
  /\ onProgressUpdate = "ok"
  /\ maxAttempts = DefaultMaxAttempts
  /\ maxConsecutiveErrors = DefaultMaxConsecutiveErrors
  /\ HandlerOptions
  /\ pc = "constructed"
  /\ Fresh

SearchResume ==
  /\ ~search.called
  /\ LET out == searchResume(search.query, search.resume)
     IN search' = [search EXCEPT !.called = TRUE, !.error = out.error,
                                 !.matches = out.matches]
  /\ UNCHANGED <<formFields, onProgressUpdate, currentFieldIndex, regCompleted,
                 completionStatus, maxAttempts, maxConsecutiveErrors, timeUp,
                 pc, currentResponse, conversation, toolCalls, callIdx,
                 attemptCount, consecutiveErrorCount, fieldAttempts,
                 completedFields, result, progressLog, requests, dispatched,
                 obs, options, apiProvider, expired, twin>>

SearchNext == SearchResume

SearchSpec == SearchInit /\ [][SearchNext]_vars

\* A run started through fillFormWithTools, up to the answer to its second
\* request, which fails.
EntryNext ==
  \/ FillFormWithTools
  \/ \E r \in Responses : InitialResponse(r)
  \/ InitialThrows
  \/ Dispatch
  \/ ModelThrows

EntrySpec == EntryInit /\ [][EntryNext]_vars

\* A run over the responses of ParserInputs: the first response is parsed
\* and its calls are dispatched; the request that follows fails.
ParserNext ==
  \/ RunToolBasedAgent
  \/ \E r \in ParserInputs : InitialResponse(r)
  \/ Dispatch
  \/ ModelThrows

ParserSpec == Init /\ [][ParserNext]_vars

\* The calls of a response that uses the whole catalog: every tool, with
\* arguments that are present, absent, known and unknown, and a name that
\* is not in the catalog.
CatalogAlphabet ==
  {Call("analyze_resume", "", "", ""),
   Call("get_resume_section", "", "skills", ""),
   Call("get_resume_section", "", "hobbies", ""),
   Call("get_resume_section", "", "", ""),
   Call("get_next_field", "", "", ""),
   Call("check_field", "f2", "", ""),
   Call("check_field", "", "", ""),
   Call("fill_field", "f1", "v1", "High"),
   Call("list_fields", "", "", ""),
   Call("search_resume", "", "java", ""),
   Call("search_resume", "", "c++", ""),
   Call("save_progress", "", "", ""),
   Call("bogus_tool", "", "", "")}

CatalogResponses ==
  {NativeResp(cs) : cs \in UNION {[1..n -> CatalogAlphabet] : n \in 1..MaxCalls}}

\* A run with the largest budgets of the run model.
CatalogInit ==
  /\ maxAttempts = MaxAttemptsOpt
  /\ maxConsecutiveErrors = MaxErrorsOpt
  /\ HandlerOptions
  /\ Constructed

\* A run whose first response calls tools of the whole catalog; its second
\* request fails.
CatalogNext ==
  \/ RunToolBasedAgent
  \/ \E r \in CatalogResponses : InitialResponse(r)
  \/ Dispatch
  \/ ModelThrows

CatalogSpec == CatalogInit /\ [][CatalogNext]_vars

\* runToolBasedAgent is called once more on an instance whose run has
\* returned: a new conversation and a new handleAgentResponse call with new
\* locals; the fields of the instance are whatever the earlier run left.
RunAgain ==
  /\ pc = "done"
  /\ obs.run = 1
  /\ UNCHANGED env
  /\ pc' = "awaitInitial"
  /\ conversation' = sendFunctionCallingMessage(<<SystemMsg, UserMsg>>)
  /\ requests' = 1
  /\ dispatched' = 0
  /\ progressLog' = <<>>
  /\ result' = NoResult
  /\ currentResponse' = NoResp
  /\ toolCalls' = <<>>
  /\ callIdx' = 0
  /\ timeUp' = FALSE
  /\ attemptCount' = 0
  /\ consecutiveErrorCount' = 0
  /\ fieldAttempts' = [f \in AttemptKeys |-> 0]
  /\ completedFields' = <<>>
  /\ obs' = [NoObs EXCEPT !.run = 2]
  /\ UNCHANGED <<formFields, onProgressUpdate, currentFieldIndex, regCompleted,
                 completionStatus, maxAttempts, maxConsecutiveErrors>>

\* The calls the model sends in the two runs of one instance.
RerunAlphabet ==
  {Call("get_next_field", "", "", ""), Call("fill_field", "f1", "v1", "High"),
   Call("list_fields", "", "", ""), Call("save_progress", "", "", "")}

RerunResponses ==
  {NativeResp(cs) : cs \in UNION {[1..n -> RerunAlphabet] : n \in 1..MaxCalls}}

\* An instance whose callback returns, with the largest budgets.
RerunInit ==
  /\ CatalogInit
  /\ onProgressUpdate = "ok"

\* Two runs of one instance, one after the other; each gets one response
\* and dispatches its calls, and its second request fails.
RerunNext ==
  \/ RunToolBasedAgent
  \/ \E r \in RerunResponses : InitialResponse(r)
  \/ Dispatch
  \/ ModelThrows
  \/ RunAgain

RerunSpec == RerunInit /\ [][RerunNext]_vars

TypeOK ==
  /\ pc \in {"entry", "constructed", "awaitInitial", "dispatch", "awaitModel",
            "done"}
  /\ attemptCount \in Nat
  /\ currentFieldIndex \in 0..NumFields


\* ================================================================ claims
\* What a fields list must look like to be "the fields filled so far" for a
\* log of executed fill_field calls: one entry per id of the log, carrying
\* the value and the confidence of that id's last call.
NoDupIds(fields) ==
  \A i, j \in 1..Len(fields) : fields[i].id = fields[j].id => i = j

IsLastOf(log, k) == \A k2 \in (k + 1)..Len(log) : log[k2].id # log[k].id

SentConfidence(conf) == IF conf = "" THEN "Medium" ELSE conf

CarriesLast(fields, log) ==
  \A i \in 1..Len(fields) :
    \E k \in 1..Len(log) :
      /\ log[k].id = fields[i].id
      /\ IsLastOf(log, k)
      /\ fields[i].value = log[k].value
      /\ fields[i].confidence = SentConfidence(log[k].confidence)

CoversLog(fields, log) ==
  \A k \in 1..Len(log) : \E i \in 1..Len(fields) : fields[i].id = log[k].id

HoldsFills(fields, log) ==
  NoDupIds(fields) /\ CarriesLast(fields, log) /\ CoversLog(fields, log)

\* C1: every run of the agent loop terminates, whatever the model answers,
\* provided every model request returns or throws.
C1_Terminates == <>(pc = "done")

C1_Witness ==
  pc = "done" /\ attemptCount >= maxAttempts /\ ~result.error /\ ~timeUp
    /\ ~obs.transportFailed

C3_ExhaustedSendsNothing ==
  [][/\ obs'.exhausted => requests' = requests
     /\ obs.exhausted => dispatched' = dispatched]_vars

\* C4: once consecutiveErrorCount has reached maxConsecutiveErrors, no tool
\* call is dispatched and no model request is sent any more.
C4_BreakerSendsNothing ==
  [][/\ obs'.tripped => requests' = requests
     /\ obs.tripped => dispatched' = dispatched]_vars

\* C5: attemptsUsed never exceeds maxAttempts.
C5_AttemptsWithinBudget == attemptCount <= maxAttempts

C8_OnlySuccessfulFills ==
  pc = "done" =>
    \A i \in 1..Len(result.fields) :
      IsRegistered(result.fields[i].id) /\ result.fields[i].id \in obs.okFills

\* C9: the final result holds at most one entry per id, and each entry
\* carries the value and confidence of the last fill_field executed for it.
C9_LastWriteWins ==
  pc = "done" =>
    NoDupIds(result.fields) /\ CarriesLast(result.fields, obs.fillLog)

C9_Witness ==
  /\ pc = "done"
  /\ obs.fillLog = <<[id |-> "f1", value |-> "v1", confidence |-> "High"],
                     [id |-> "f1", value |-> "v2", confidence |-> "Low"]>>
  /\ result.fields = <<[id |-> "f1", value |-> "v2", confidence |-> "Low"]>>

\* C10: on every termination path the result lists every field successfully
\* filled up to that point and carries the filled/total summary.
C10_ResultOnEveryPath ==
  pc = "done" =>
    /\ \A id \in obs.okFills :
         \E i \in 1..Len(result.fields) : result.fields[i].id = id
    /\ result.filled = Len(result.fields)
    /\ result.total = NumFields

\* The call the for loop is about to execute.
CurrentCall == toolCalls[callIdx]

IsDiagnostic(m) ==
  m.role = "assistant" /\ m.content \in {"error", "skip field"}

\* C11: once an id has collected 3 failed fill_field attempts, no later
\* fill_field call for that id is executed.
C11_SkippedFieldNotExecuted ==
  [][(/\ pc = "dispatch"
      /\ TracksField(CurrentCall)
      /\ fieldAttempts[CurrentCall.field_id] >= 3)
       => dispatched' = dispatched]_vars

\* C12: a check_field or fill_field call whose field_id is not registered
\* increments consecutiveErrorCount and, for fill_field, the attempt counter
\* of that id, and appends the error as a diagnostic message.
C12_NotFoundCountsAsError ==
  [][(/\ pc = "dispatch"
      /\ CurrentCall.tool \in {"check_field", "fill_field"}
      /\ ~IsRegistered(CurrentCall.field_id))
       => /\ consecutiveErrorCount' = consecutiveErrorCount + 1
          /\ CurrentCall.tool = "fill_field" =>
               fieldAttempts'[CurrentCall.field_id] =
                 fieldAttempts[CurrentCall.field_id] + 1
          /\ Len(conversation') = Len(conversation) + 1
          /\ IsDiagnostic(conversation'[Len(conversation')])]_vars

\* C13: consecutiveErrorCount equals the number of throwing executions since
\* the last execution that did not throw.
C13_ErrorCountSinceLastSuccess == consecutiveErrorCount = obs.sinceOk

C15_CooperativeRunCompletes ==
  (/\ pc = "done" /\ obs.cooperative /\ ~obs.transportFailed /\ ~timeUp
   /\ maxAttempts >= 2 * NumFields + 1)
    => /\ result.kind = "complete"
       /\ result.filled = NumFields
       /\ \A i \in 1..NumFields :
            \E j \in 1..Len(result.fields) : result.fields[j].id = formFields[i]

\* C16: whenever a model request is in flight after a dispatch round, every
\* field handed out by get_next_field has been reported in a tool-result
\* message, and the result of the last execution, if it did not throw, is the
\* last message of the conversation.
C16_ResultsAppendedBeforeRequest ==
  pc = "awaitModel" =>
    /\ \A i \in 1..currentFieldIndex :
         \E k \in 1..Len(conversation) :
           /\ conversation[k].role = "tool"
           /\ conversation[k].tool = "get_next_field"
           /\ conversation[k].res.field_id = formFields[i]
    /\ ~obs.lastExec.thrown =>
         /\ conversation[Len(conversation)].role = "tool"
         /\ conversation[Len(conversation)].res = obs.lastExec.res

\* C17: an execution that does not throw appends the assistant echo with
\* empty content directly followed by the tool message with the same call
\* id and the result; an execution that throws appends exactly one
\* diagnostic assistant message.
C17_EchoThenToolResult ==
  [][pc = "dispatch" =>
       IF ~obs'.lastExec.thrown
       THEN /\ Len(conversation') = Len(conversation) + 2
            /\ SubSeq(conversation', 1, Len(conversation)) = conversation
            /\ conversation'[Len(conversation') - 1].role = "assistant"
            /\ conversation'[Len(conversation') - 1].content = ""
            /\ conversation'[Len(conversation') - 1].tool_call_id
                 = CurrentCall.id
            /\ conversation'[Len(conversation')].role = "tool"
            /\ conversation'[Len(conversation')].tool_call_id
                 = CurrentCall.id
            /\ conversation'[Len(conversation')].res = obs'.lastExec.res
       ELSE /\ Len(conversation') = Len(conversation) + 1
            /\ SubSeq(conversation', 1, Len(conversation)) = conversation
            /\ IsDiagnostic(conversation'[Len(conversation')])]_vars

\* C18: a tool name outside the catalog never reaches dispatch and never
\* shows up in the conversation.
C18_UnknownToolDropped ==
  /\ \A i \in 1..Len(toolCalls) : toolCalls[i].tool \in validTools
  /\ \A k \in 1..Len(conversation) :
       conversation[k].tool \in validTools \cup {""}

\* The four renderings of "fill field f1 with value Jane Doe and confidence
\* High": a structured call, the inline text
\* fill_field("f1", "Jane Doe", "High"), the block "Tool: fill_field",
\* newline, "Parameters: {json}", and the embedded JSON action object.
JaneDoeShapes ==
  {NativeResp(<<Call("fill_field", "f1", "Jane Doe", "High")>>),
   Text(<<DirectFrag("fill_field", SpacedArgs)>>),
   Text(<<LabeledFrag("fill_field", "ws")>>),
   Text(<<JsonActionFrag("fill_field")>>)}

\* C19: each of the four renderings is parsed to one fill_field call with
\* the arguments field_id = f1, value = Jane Doe, confidence = High.
C19_ShapeEquivalence ==
  currentResponse \in JaneDoeShapes =>
    /\ Len(toolCalls) = 1
    /\ toolCalls[1].tool = "fill_field"
    /\ toolCalls[1].field_id = "f1"
    /\ toolCalls[1].value = "Jane Doe"
    /\ toolCalls[1].confidence = "High"

\* The branches of the parser in priority order, and what each of them
\* finds in the response r when asked alone.
ShapeOrder == <<"native", "json", "labeled", "direct", "heuristic">>

Yield(r) ==
  <<NativeCalls(r), JsonActionCalls(r.text), LabeledCalls(r.text),
    DirectCalls(r.text), HeuristicCalls(r.text)>>

\* C20: every call of the parser's output comes from one shape, the first
\* in priority order that yields a call for the response.
C20_OneShapeByPriority ==
  pc = "dispatch" =>
    LET top == Min({k \in 1..5 : Yield(currentResponse)[k] # <<>>})
    IN \A i \in 1..Len(toolCalls) : toolCalls[i].via = ShapeOrder[top]

C20_Witness ==
  /\ pc = "dispatch"
  /\ LabeledCalls(currentResponse.text) # <<>>
  /\ DirectCalls(currentResponse.text) # <<>>
  /\ toolCalls = LabeledCalls(currentResponse.text)

\* No branch before the heuristic one finds a call in the text r.
OnlyHeuristic(r) ==
  /\ r.shape = "text"
  /\ JsonActionCalls(r.text) = <<>>
  /\ LabeledCalls(r.text) = <<>>
  /\ DirectCalls(r.text) = <<>>

\* C21: when no other shape matched, a text with an ID/Value pattern gives a
\* fill_field call with that id and value and the confidence of its
\* Confidence line, Medium without one, and the run goes on to dispatch it;
\* a text with "Next field:" and "get_next_field" gives a get_next_field
\* call without arguments.
C21_HeuristicFallback ==
  LET frags == currentResponse.text
      ids == {i \in 1..Len(frags) : frags[i].kind = "id_value"}
      hint == \E i \in 1..Len(frags) : frags[i].kind = "next_field"
  IN OnlyHeuristic(currentResponse) =>
       /\ ids # {} =>
            LET f == frags[Min(ids)]
            IN /\ \E k \in 1..Len(toolCalls) :
                    /\ toolCalls[k].tool = "fill_field"
                    /\ toolCalls[k].field_id = f.field_id
                    /\ toolCalls[k].value = f.value
                    /\ toolCalls[k].confidence =
                         (IF f.confidence = "" THEN "Medium"
                          ELSE f.confidence)
               /\ ~result.error
               /\ pc = "done" => dispatched >= 1
       /\ hint =>
            \E k \in 1..Len(toolCalls) :
              toolCalls[k] = Parsed(0, "get_next_field", "", "", "",
                                    "heuristic")

\* C22: a response with malformed tool-call syntax counts as a response
\* without tool calls: nothing is dispatched for it and the run ends with
\* error = false.
C22_ParseFailureNonFatal ==
  currentResponse \in MalformedInputs =>
    /\ toolCalls = <<>>
    /\ dispatched = 0
    /\ pc = "done"
    /\ ~result.error

\* C30: a fill_field call without a confidence is recorded in the final
\* result with confidence Medium, in every response shape.
C30_OmittedConfidenceIsMedium ==
  (currentResponse \in OmittedConfidenceInputs /\ pc = "done") =>
    \A i \in 1..Len(result.fields) :
      result.fields[i].value = "Jane Doe" =>
        result.fields[i].confidence = "Medium"

\* C23: the completed list of save_progress has at most one entry per field
\* id; list_fields reports completed = number of distinct filled fields,
\* 0 <= completed <= total and remaining = total - completed >= 0.
C23_RegistryUpserts ==
  LET done == saveProgress.fields
      ids == {done[i].id : i \in 1..Len(done)}
  IN /\ \A i, j \in 1..Len(done) : done[i].id = done[j].id => i = j
     /\ listFields.completed = Cardinality(ids)
     /\ 0 <= listFields.completed
     /\ listFields.completed <= listFields.total
     /\ listFields.remaining = listFields.total - listFields.completed
     /\ listFields.remaining >= 0

\* C24: every value given to the progress callback and the percentage that
\* save_progress reports are integers from 0 to 100.
C24_PercentageInRange ==
  /\ \A i \in 1..Len(progressLog) : progressLog[i] \in 0..100
  /\ saveProgress.completion_percentage \in 0..100

\* C25: a run started through fillFormWithTools uses the caller's
\* options.maxAttempts and options.maxConsecutiveErrors as its budgets, and
\* 15 and 5 where the caller gives none.
C25_OptionsOverrideDefaults ==
  pc # "entry" =>
    /\ maxAttempts = Option(options.maxAttempts, DefaultMaxAttempts)
    /\ maxConsecutiveErrors =
         Option(options.maxConsecutiveErrors, DefaultMaxConsecutiveErrors)

\* C26: the conversation starts with the system message and the user
\* message, and a step of the run, the transport call included, only adds
\* messages at its end.
C26_ConversationAppendOnly ==
  [][/\ Len(conversation') >= Len(conversation)
     /\ SubSeq(conversation', 1, Len(conversation)) = conversation
     /\ Len(conversation') >= 2 =>
          (conversation'[1] = SystemMsg /\ conversation'[2] = UserMsg)]_vars

\* C27: once the elapsed time exceeds maxRunTime no further tool call is
\* dispatched, and the run ends with error = false.
C27_NoDispatchAfterTimeout ==
  [][/\ expired => dispatched' = dispatched
     /\ (expired' /\ pc' = "done") => ~result'.error]_vars

\* The lines of the resume the query occurs in, and the related terms that
\* occur somewhere in the resume.
DirectLines == {i \in 1..Len(search.resume) :
                  Occurs(search.query, search.resume[i])}

RelatedHits ==
  LET terms == getRelatedTerms(search.query)
  IN {k \in 1..Len(terms) :
        \E i \in 1..Len(search.resume) : Occurs(terms[k], search.resume[i])}

\* C29: search_resume returns a non-empty match list; Medium matches, one
\* per matching line with at most two lines of context on each side, when
\* the query matches; otherwise Low single-line matches of the related
\* terms; otherwise the single match "No matches found" with confidence Low,
\* which never stands beside a real match.
C29_SearchTiers ==
  search.called =>
    LET ms == search.matches
        sentinel == {k \in 1..Len(ms) : ms[k] = NoMatchesFound}
    IN /\ ~search.error
       /\ Len(ms) >= 1
       /\ DirectLines # {} =>
            /\ Len(ms) = Cardinality(DirectLines)
            /\ \A k \in 1..Len(ms) :
                 /\ ms[k].confidence = "Medium"
                 /\ Len(ms[k].text) \in 1..5
                 /\ \E j \in 1..Len(ms[k].text) :
                      Occurs(search.query, ms[k].text[j])
       /\ (DirectLines = {} /\ RelatedHits # {}) =>
            /\ Len(ms) = Cardinality(RelatedHits)
            /\ \A k \in 1..Len(ms) :
                 ms[k].confidence = "Low" /\ Len(ms[k].text) = 1
       /\ (DirectLines = {} /\ RelatedHits = {}) => ms = <<NoMatchesFound>>
       /\ sentinel # {} => Len(ms) = 1

\* What a run that is alone produces from its own history o: the k-th
\* get_next_field answers with the k-th field, or with the terminal result
\* once the fields are used up, and the final result res holds the last
\* fill of each id the run itself sent.
RanAlone(o, res, p) ==
  /\ \A k \in 1..Len(o.gnfLog) :
       o.gnfLog[k] = getNextField(Min({k - 1, NumFields}), formFields).res
  /\ p = "done" =>
       /\ HoldsFills(res.fields, o.fillLog)
       /\ res = FinalResult(res.fields)

\* C28: of two runs over the same field list, interleaved at their awaits,
\* each gets the get_next_field sequence and the final result it would get
\* alone with the same model responses.
C28_RunsIndependent ==
  /\ RanAlone(obs, result, pc)
  /\ RanAlone(twin.obs, twin.result, twin.pc)

C28_Witness ==
  /\ pc = "dispatch" /\ callIdx = 2
  /\ twin.pc = "dispatch" /\ twin.callIdx = 2
  /\ Len(obs.gnfLog) = 1 /\ Len(twin.obs.gnfLog) = 1
  /\ toolCalls[2].tool = "get_next_field"
  /\ twin.toolCalls[2].tool = "get_next_field"
  /\ NumFields = 2

\* C32: a dispatch step invokes the progress callback exactly once when it
\* executed a fill_field that reported success, and not at all when the
\* fill_field reported an error or when it executed any other tool.
C32_CallbackOncePerFill ==
  [][pc = "dispatch" =>
       Len(progressLog') - Len(progressLog) =
         IF /\ CurrentCall.tool = "fill_field"
            /\ obs'.lastExec.res.status = "filled"
         THEN 1 ELSE 0]_vars

\* C33: the calls of a response are dispatched one after the other from the
\* first, and the next model request of a run that goes on is sent only
\* after the last of them was dispatched.
C33_CallsConsumedOnce ==
  [][/\ (pc # "dispatch" /\ pc' = "dispatch") => callIdx' = 1
     /\ (pc = "dispatch" /\ pc' = "dispatch") =>
          (callIdx' = callIdx + 1 /\ toolCalls' = toolCalls)
     /\ (pc = "dispatch" /\ pc' = "awaitModel") =>
          callIdx = Len(toolCalls)]_vars

\* C36: in a final result "Filled n/total" the count n is the number of
\* entries of fields and is at most the number of registered fields, and
\* the summary says 'complete' only when every registered id has an entry.
C36_SummaryMatchesFields ==
  (pc = "done" /\ result.kind \in {"complete", "partial"}) =>
    /\ result.filled = Len(result.fields)
    /\ result.filled <= NumFields
    /\ result.kind = "complete" =>
         \A i \in 1..NumFields :
           \E k \in 1..Len(result.fields) :
             result.fields[k].id = formFields[i]

\* C34: a run sends at most maxAttempts + 1 requests to the model: the
\* initial one and at most one after each round of dispatched calls.
C34_RequestsBounded == requests <= maxAttempts + 1

C34_Witness ==
  /\ pc = "done"
  /\ maxAttempts = MaxAttemptsOpt
  /\ requests = maxAttempts + 1
  /\ dispatched >= maxAttempts

\* The tools that only read.
ReadOnlyTools ==
  {"analyze_resume", "get_resume_section", "search_resume", "check_field",
   "list_fields", "save_progress"}

\* C31: a dispatch of one of the six reading tools leaves the cursor, the
\* completed list and the run's filled entries as they are; list_fields
\* returns every registered field whatever the cursor; the cursor moves
\* only in a dispatch of get_next_field and the completed fields change
\* only in a dispatch of fill_field.
C31_Frame ==
  [][pc = "dispatch" =>
       /\ CurrentCall.tool \in ReadOnlyTools =>
            /\ currentFieldIndex' = currentFieldIndex
            /\ regCompleted' = regCompleted
            /\ completedFields' = completedFields
       /\ CurrentCall.tool = "list_fields" => obs'.listed = formFields
       /\ currentFieldIndex' # currentFieldIndex =>
            CurrentCall.tool = "get_next_field"
       /\ (regCompleted' # regCompleted \/ completedFields' # completedFields)
            => CurrentCall.tool = "fill_field"]_vars

C31_Witness ==
  /\ NumFields = MaxFields
  /\ currentFieldIndex = 1
  /\ obs.lastExec.res.status = "fields"
  /\ ~obs.lastExec.thrown
  /\ obs.listed = formFields
  /\ regCompleted = <<>>

\* C35: executeTool returns for every call of a catalog tool, and a
\* dispatch increments consecutiveErrorCount or a count of fieldAttempts
\* only when the tool name is outside the catalog or the progress callback
\* throws.
C35_CatalogToolsDoNotThrow ==
  [][/\ (pc = "dispatch" /\ CurrentCall.tool \in validTools) =>
          ~executeTool(CurrentCall).thrown
     /\ (\/ consecutiveErrorCount' > consecutiveErrorCount
         \/ \E f \in AttemptKeys : fieldAttempts'[f] > fieldAttempts[f]) =>
          (pc = "dispatch" /\
             (CurrentCall.tool \notin validTools
                \/ onProgressUpdate = "throws"))]_vars

C35_Witness ==
  /\ pc = "dispatch" /\ callIdx = 2
  /\ toolCalls[1].tool = "get_resume_section"
  /\ toolCalls[1].value = ""
  /\ obs.lastExec.res.status = "error"
  /\ ~obs.lastExec.thrown
  /\ consecutiveErrorCount = 0

\* The number of entries the fill_field executions of the run itself pushed.
OwnFills ==
  Cardinality({k \in 1..Len(obs.fillLog) : IsRegistered(obs.fillLog[k].id)})

\* What holds of a run that started from a fresh state.
StartedFresh ==
  /\ pc = "awaitInitial" =>
       /\ currentFieldIndex = 0
       /\ regCompleted = <<>>
       /\ completionStatus = 0
       /\ attemptCount = 0
       /\ consecutiveErrorCount = 0
  /\ RanAlone(obs, result, pc)
  /\ listFields.completed = OwnFills
  /\ saveProgress.completed_fields = OwnFills

\* C37: the second run of an instance starts with cursor 0, no completed
\* fields and zero counters, and its get_next_field results, its
\* list_fields and save_progress counts and its result are those of a run
\* on a fresh instance.
C37_SecondRunStartsFresh == obs.run = 2 => StartedFresh

====
